---- MODULE Spec2Model ----
(***************************************************************************)
(* Job-level queue of the Clarity recording automation                     *)
(* (queue manager, src/src/index.js lines 62-398).                          *)
(*                                                                         *)
(* JavaScript runs each stretch of code between two awaits to completion,  *)
(* so every action below is one such stretch: the synchronous part of      *)
(* queueJob, the continuation of processNextJob after `await               *)
(* processFunction(job)`, the continuation of sendWebhookNotification      *)
(* after `await fetch(...)`, and the continuation of processNextJob after  *)
(* `await sendWebhookNotification(job)` (resolve/reject, the finally       *)
(* block and the recursive processNextJob call).                           *)
(*                                                                         *)
(* The processing callback follows its documented contract (index.js       *)
(* 333-334): an async function that resolves with an array of results or   *)
(* rejects with an Error.  A result is modelled by its `success` flag.     *)
(* Job ids are modelled by the value of jobIdCounter that produced them;   *)
(* timestamps by the value of a millisecond clock `now`.                   *)
(***************************************************************************)
EXTENDS Integers, Sequences, FiniteSets, TLC

\* ---------------------------------------------------------------- bounds
MaxJobs == 3      \* queueJob calls explored
MaxRecs == 1      \* largest recordingsCount / longest result list explored
MaxTime == 2      \* last clock value explored
MaxResults == 5   \* longest result list explored where the list itself is the subject
LongRun == 997    \* jobs a long-running process has issued before the ids explored
MaxUnits == 3     \* longest recordings list given to processRecordingsInJob
MaxK == 3         \* largest options.maxConcurrent explored

\* ------------------------------------------------------ program constants
KeepLast == 50    \* cleanupOldJobs keeps the 50 most recent terminal jobs
ConfigMaxConcurrent == 2   \* config.processing.maxConcurrent when the environment sets none

\* JavaScript null, per field type
NoJob   == 0
NoTime  == 0
NoError == "null"
NoUrl   == "null"
NoFolder == <<>>

Urls     == {NoUrl, "http://hook"}
Messages == {"boom", "timeout"}
FetchOutcomes == {"ok", "non2xx", "networkError"}
NoResponse == "none"

JobIds == 1..(MaxJobs + 1)

VARIABLES
  jobQueue,      \* const jobQueue = []: ids of the pending entries, head first
  currentJob,    \* let currentJob = null
  isProcessing,  \* let isProcessing = false
  allJobs,       \* const allJobs = new Map(): present ids -> job record
  jobIdCounter,  \* let jobIdCounter = 0
  stats,         \* let stats = {...}
  now,           \* the clock read by new Date()
  pc,            \* where the live processNextJob invocation is suspended
  future,        \* state of the promise queueJob returned, per job id
  webhooks,      \* every fetch() POST issued, in order: the payload sent
  response,      \* what the fetch() of the live invocation settled with
  started,       \* ids in the order their status was set to 'processing'
  submitted,     \* ids in the order queueJob was called
  locals,        \* processNextJob's `results` / `error` bindings, held across awaits
  settledWith,   \* the value each queueJob promise was resolved or rejected with
  removed,       \* the records cleanupOldJobs has deleted from allJobs
  \* one call of processRecordingsInJob(recordings, processFunc, options)
  recordings,    \* the recordings argument
  batchOptions,  \* the options argument
  limit,         \* const limit = pLimit(maxConcurrent): its count and its queue
  inFlight,      \* indexes whose processFunc call has started and not settled
  promises,      \* const promises = recordings.map(...)
  outcomes,      \* what processFunc did for each index, once it settled
  settleOrder,   \* indexes in the order their processFunc call settled
  returned,      \* the promise processRecordingsInJob returned
  lookup         \* the last getJobStatus call: its argument and its result

queueVars == <<jobQueue, currentJob, isProcessing, allJobs, jobIdCounter, stats,
               now, pc, future, webhooks, response, started, submitted,
               locals, settledWith, removed>>
batchVars == <<recordings, batchOptions, limit, inFlight, promises, outcomes,
               settleOrder, returned>>
vars == <<queueVars, batchVars, lookup>>

\* ------------------------------------------------------------- helpers
RECURSIVE SeqsUpTo(_, _)
SeqsUpTo(S, n) ==
  IF n = 0 THEN {<<>>}
  ELSE LET shorter == SeqsUpTo(S, n - 1)
       IN  shorter \cup {Append(s, x) : s \in {t \in shorter : Len(t) = n - 1}, x \in S}

ResultLists == SeqsUpTo(BOOLEAN, MaxRecs)

\* Plausible slips: the filter predicate is dropped (every result counted).
CountSuccess_All(results) == Len(results)
CountFailure_All(results) == Len(results)

\* results.filter(r => r.success).length / results.filter(r => !r.success).length
CountSuccess(results) == Cardinality({i \in 1..Len(results) : results[i]})
CountFailure(results) == Cardinality({i \in 1..Len(results) : ~results[i]})

Terminal(j) == j.status \in {"completed", "failed"}

\* Map.set(key, value) / Map.delete on a set of keys
MapSet(m, k, v) == [x \in (DOMAIN m) \cup {k} |-> IF x = k THEN v ELSE m[x]]
MapDelete(m, ks) == [x \in (DOMAIN m) \ ks |-> m[x]]

\* ------------------------------------------------------------ createJob
generateJobId(counter) == counter + 1

createJob(options, id, t) ==
  [ id                  |-> id,
    status              |-> "queued",
    folder              |-> <<options.outputDir, id>>,
    createdAt           |-> t,
    startedAt           |-> NoTime,
    completedAt         |-> NoTime,
    recordingsTotal     |-> options.recordingsCount,
    recordingsCompleted |-> 0,
    recordingsFailed    |-> 0,
    results             |-> <<>>,
    error               |-> NoError,
    webhookUrl          |-> options.webhookUrl ]

\* options.outputDir || './recordings' is left at its default
Options == [recordingsCount : 0..MaxRecs, webhookUrl : Urls,
            outputDir : {"./recordings"}]

\* ---------------------------------------------------------- job id text
\* Strings are sequences of one-character strings. The clock counts
\* milliseconds.
DigitChars == <<"0", "1", "2", "3", "4", "5", "6", "7", "8", "9">>

RECURSIVE StringOf(_)
\* String(n) for a natural number n: its decimal digits
StringOf(n) ==
  IF n < 10 THEN <<DigitChars[n + 1]>>
  ELSE Append(StringOf(n \div 10), DigitChars[(n % 10) + 1])

\* str.padStart(width, '0'): pads on the left, never truncates
padStart(str, width) ==
  [i \in 1..(IF Len(str) < width THEN width - Len(str) ELSE 0) |-> "0"] \o str

\* now.toISOString().replace(/[-:T]/g, '').slice(0, 14): the fourteen
\* digits of the calendar second, here the count of whole seconds.
Timestamp(t) == padStart(StringOf(t \div 1000), 14)

\* A plausible slip: the id is built from the timestamp alone.
JobIdString_TimestampOnly(ts, counter) == <<"j", "o", "b", "_">> \o ts

\* `job_${timestamp}_${String(counter).padStart(3, '0')}`
JobIdString(ts, counter) ==
  <<"j", "o", "b", "_">> \o ts \o <<"_">> \o padStart(StringOf(counter), 3)

\* path.join(baseDir, jobId)
createJobFolder(jobId, baseDir) == baseDir \o <<"/">> \o jobId

\* The id and the folder of a record as text: generateJobId reads the clock
\* in the same synchronous stretch in which createJob stamps createdAt.
IdText(j) == JobIdString(Timestamp(j.createdAt), j.id)
FolderText(j) == createJobFolder(IdText(j), <<".", "/", "r">>)

\* -------------------------------------------------------- cleanupOldJobs
\* A plausible slip: the comparator is a - b, so the oldest come first.
SortedPosition_Ascending(jobs, x) ==
  1 + Cardinality({y \in DOMAIN jobs :
        /\ Terminal(jobs[y])
        /\ \/ jobs[y].completedAt < jobs[x].completedAt
           \/ (jobs[y].completedAt = jobs[x].completedAt /\ y < x)})

\* Position (from 1) of terminal job x in the list sorted by completedAt
\* descending.  Array.prototype.sort is stable and the Map iterates in
\* insertion order, which is ascending id, so ties keep ascending id.
SortedPosition(jobs, x) ==
  1 + Cardinality({y \in DOMAIN jobs :
        /\ Terminal(jobs[y])
        /\ \/ jobs[y].completedAt > jobs[x].completedAt
           \/ (jobs[y].completedAt = jobs[x].completedAt /\ y < x)})

\* A plausible slip: slice(KeepLast + 1), one record too many is kept.
cleanupOldJobs_KeepOneMore(jobs) ==
  LET completed == {x \in DOMAIN jobs : Terminal(jobs[x])}
  IN  IF Cardinality(completed) > KeepLast
      THEN MapDelete(jobs, {x \in completed : SortedPosition(jobs, x) > KeepLast + 1})
      ELSE jobs

\* A plausible slip: the status filter is missing, so every record is
\* ranked (new Date(null) is the epoch: unfinished jobs sort last).
cleanupOldJobs_NoFilter(jobs) ==
  LET before(y, x) == \/ jobs[y].completedAt > jobs[x].completedAt
                      \/ (jobs[y].completedAt = jobs[x].completedAt /\ y < x)
      position(x) == 1 + Cardinality({y \in DOMAIN jobs : before(y, x)})
  IN  IF Cardinality(DOMAIN jobs) > KeepLast
      THEN MapDelete(jobs, {x \in DOMAIN jobs : position(x) > KeepLast})
      ELSE jobs

cleanupOldJobs(jobs) ==
  LET completed == {x \in DOMAIN jobs : Terminal(jobs[x])}
  IN  IF Cardinality(completed) > KeepLast
      THEN MapDelete(jobs, {x \in completed : SortedPosition(jobs, x) > KeepLast})
      ELSE jobs

\* ------------------------------------------------------- processNextJob
\* A plausible slip: the isProcessing guard is not tested.
processNextJob_NoGuard(guard, queue, jobs, current) ==
  IF queue = <<>>
  THEN /\ isProcessing' = guard
       /\ jobQueue' = queue
       /\ allJobs' = jobs
       /\ currentJob' = current
       /\ pc' = IF guard THEN pc ELSE "idle"
       /\ started' = started
  ELSE LET id == Head(queue)
       IN  /\ isProcessing' = TRUE
           /\ jobQueue' = Tail(queue)
           /\ currentJob' = id
           /\ allJobs' = [jobs EXCEPT ![id].status = "processing",
                                      ![id].startedAt = now]
           /\ pc' = "processFunction"
           /\ started' = Append(started, id)

\* A plausible slip: jobQueue.pop() instead of jobQueue.shift().
processNextJob_Pop(guard, queue, jobs, current) ==
  IF guard \/ queue = <<>>
  THEN /\ isProcessing' = guard
       /\ jobQueue' = queue
       /\ allJobs' = jobs
       /\ currentJob' = current
       /\ pc' = IF guard THEN pc ELSE "idle"
       /\ started' = started
  ELSE LET id == queue[Len(queue)]
       IN  /\ isProcessing' = TRUE
           /\ jobQueue' = SubSeq(queue, 1, Len(queue) - 1)
           /\ currentJob' = id
           /\ allJobs' = [jobs EXCEPT ![id].status = "processing",
                                      ![id].startedAt = now]
           /\ pc' = "processFunction"
           /\ started' = Append(started, id)

\* A plausible slip: the head is read (jobQueue[0]) but not removed.
processNextJob_NoShift(guard, queue, jobs, current) ==
  IF guard \/ queue = <<>>
  THEN /\ isProcessing' = guard
       /\ jobQueue' = queue
       /\ allJobs' = jobs
       /\ currentJob' = current
       /\ pc' = IF guard THEN pc ELSE "idle"
       /\ started' = started
  ELSE LET id == Head(queue)
       IN  /\ isProcessing' = TRUE
           /\ jobQueue' = queue
           /\ currentJob' = id
           /\ allJobs' = [jobs EXCEPT ![id].status = "processing",
                                      ![id].startedAt = now]
           /\ pc' = "processFunction"
           /\ started' = Append(started, id)

\* The synchronous start of processNextJob (index.js 249-266), applied to
\* the values of isProcessing, jobQueue, allJobs and currentJob its caller
\* has just produced (queueJob after its push, the finally block after its
\* resets and cleanupOldJobs).
processNextJob(guard, queue, jobs, current) ==
  IF guard \/ queue = <<>>
  THEN /\ isProcessing' = guard
       /\ jobQueue' = queue
       /\ allJobs' = jobs
       /\ currentJob' = current
       /\ pc' = IF guard THEN pc ELSE "idle"
       /\ started' = started
  ELSE LET id == Head(queue)
       IN  /\ isProcessing' = TRUE
           /\ jobQueue' = Tail(queue)
           /\ currentJob' = id
           /\ allJobs' = [jobs EXCEPT ![id].status = "processing",
                                      ![id].startedAt = now]
           /\ pc' = "processFunction"
           /\ started' = Append(started, id)

\* The exported createJob called directly, as captureBatch does: the record
\* is stored and nothing is queued. Ids stay within the ids the promises of
\* the remaining queueJob calls need.
CreateJob(options) ==
  /\ \E top \in DOMAIN future :
       jobIdCounter + (MaxJobs - Len(submitted)) < top
  /\ LET id == generateJobId(jobIdCounter)
     IN  /\ jobIdCounter' = id
         /\ allJobs' = MapSet(allJobs, id, createJob(options, id, now))
  /\ UNCHANGED <<jobQueue, currentJob, isProcessing, stats, now, pc, future,
                 webhooks, response, started, submitted, locals, settledWith,
                 removed>>
  /\ UNCHANGED <<batchVars, lookup>>

\* The exported updateJob(jobId, updates): Object.assign on the stored
\* record, nothing for an unknown id.
updateJob(jobs, jobId, updates) ==
  IF jobId \in DOMAIN jobs
  THEN [jobs EXCEPT ![jobId] =
          [f \in DOMAIN @ |-> IF f \in DOMAIN updates THEN updates[f] ELSE @[f]]]
  ELSE jobs

\* The two updates captureBatch makes (capture-batch.js 198-202, 224-228),
\* without the fields that carry the recordings.
Updates(t) ==
  {[status |-> "processing", startedAt |-> t],
   [status |-> "completed", completedAt |-> t]}

UpdateJob(jobId, updates) ==
  /\ allJobs' = updateJob(allJobs, jobId, updates)
  /\ UNCHANGED <<jobQueue, currentJob, isProcessing, jobIdCounter, stats, now,
                 pc, future, webhooks, response, started, submitted, locals,
                 settledWith, removed>>
  /\ UNCHANGED <<batchVars, lookup>>

\* ------------------------------------------------------------- queueJob
\* A plausible slip: jobQueue.unshift(...) instead of jobQueue.push(...).
Enqueue_AtHead(queue, id) == <<id>> \o queue

\* jobQueue.push({ job, processFunction, resolve, reject })
Enqueue(queue, id) == Append(queue, id)

\* A plausible slip: the call of processNextJob() at the end is missing.
QueueJob_NoKick(options) ==
  /\ Len(submitted) < MaxJobs
  /\ LET id  == generateJobId(jobIdCounter)
         job == createJob(options, id, now)
     IN  /\ jobIdCounter' = id
         /\ submitted' = Append(submitted, id)
         /\ future' = [future EXCEPT ![id] = "pending"]
         /\ jobQueue' = Enqueue(jobQueue, id)
         /\ allJobs' = MapSet(allJobs, id, job)
  /\ UNCHANGED <<stats, now, webhooks, response, locals, settledWith, removed,
                 currentJob, isProcessing, pc, started>>
  /\ UNCHANGED <<batchVars, lookup>>

QueueJob(options) ==
  /\ Len(submitted) < MaxJobs
  /\ LET id  == generateJobId(jobIdCounter)
         job == createJob(options, id, now)
     IN  /\ jobIdCounter' = id
         /\ submitted' = Append(submitted, id)
         /\ future' = [future EXCEPT ![id] = "pending"]
         /\ processNextJob(isProcessing, Enqueue(jobQueue, id),
                           MapSet(allJobs, id, job), currentJob)
  /\ UNCHANGED <<stats, now, webhooks, response, locals, settledWith, removed>>
  /\ UNCHANGED <<batchVars, lookup>>

\* No processNextJob invocation is suspended: no bindings are live.
NoLocals == [path |-> "none", results |-> <<>>, error |-> NoError]
NoValue  == [success |-> FALSE, jobId |-> NoJob, folder |-> NoFolder, total |-> 0,
             completed |-> 0, failed |-> 0, results |-> <<>>, error |-> NoError]

\* resolve({ success: true, jobId, folder, total, completed, failed, results }):
\* the fields of the job object and the local `results` (index.js 283-291)
ResolveValue(job, results) ==
  [success |-> TRUE, jobId |-> job.id, folder |-> job.folder,
   total |-> job.recordingsTotal, completed |-> job.recordingsCompleted,
   failed |-> job.recordingsFailed, results |-> results, error |-> NoError]

\* reject(error): the caught error, modelled by its message (index.js 303)
RejectValue(error) == [NoValue EXCEPT !.error = error]

\* The records a call of cleanupOldJobs deletes.
Deleted(jobs) == {jobs[x] : x \in (DOMAIN jobs) \ DOMAIN cleanupOldJobs(jobs)}

\* sendWebhookNotification(job) up to its first await (index.js 211-233)
sendWebhookNotification(job) ==
  IF job.webhookUrl = NoUrl
  THEN /\ webhooks' = webhooks
       /\ response' = NoResponse
       /\ pc' = "notified"
  ELSE /\ webhooks' = Append(webhooks,
                        [jobId |-> job.id, status |-> job.status,
                         recordingsCompleted |-> job.recordingsCompleted,
                         recordingsFailed |-> job.recordingsFailed,
                         results |-> job.results])
       /\ response' = "pending"
       /\ pc' = "fetch"

\* A plausible slip: the notification is not awaited (fire and forget), so
\* the promise settles and the finally block runs in the same stretch.
ProcessFunctionResolves_FireAndForget(results) ==
  /\ pc = "processFunction"
  /\ LET job == [allJobs[currentJob] EXCEPT
                   !.status = "completed",
                   !.completedAt = now,
                   !.results = results,
                   !.recordingsCompleted = CountSuccess(results),
                   !.recordingsFailed = CountFailure(results)]
     IN  /\ stats' = [stats EXCEPT !.jobsCompleted = @ + 1,
                                   !.recordingsProcessed = @ + Len(results)]
         /\ webhooks' = IF job.webhookUrl = NoUrl THEN webhooks
                         ELSE Append(webhooks,
                                [jobId |-> job.id, status |-> job.status,
                                 recordingsCompleted |-> job.recordingsCompleted,
                                 recordingsFailed |-> job.recordingsFailed,
                                 results |-> job.results])
         /\ response' = IF job.webhookUrl = NoUrl THEN NoResponse ELSE "pending"
         /\ future' = [future EXCEPT ![currentJob] = "resolved"]
         /\ settledWith' = [settledWith EXCEPT ![currentJob] = ResolveValue(job, results)]
         /\ removed' = removed \cup Deleted([allJobs EXCEPT ![currentJob] = job])
         /\ processNextJob(FALSE, jobQueue,
                           cleanupOldJobs([allJobs EXCEPT ![currentJob] = job]), NoJob)
  /\ locals' = NoLocals
  /\ UNCHANGED <<jobIdCounter, now, submitted>>
  /\ UNCHANGED <<batchVars, lookup>>

\* processFunction(job) resolves: index.js 266-281
\* A plausible slip: a job with a failed recording gets an error message.
ProcessFunctionResolves_ErrorOnPartial(results) ==
  /\ pc = "processFunction"
  /\ LET job == [allJobs[currentJob] EXCEPT
                   !.status = "completed",
                   !.completedAt = now,
                   !.results = results,
                   !.error = IF CountFailure(results) > 0 THEN "boom" ELSE NoError,
                   !.recordingsCompleted = CountSuccess(results),
                   !.recordingsFailed = CountFailure(results)]
     IN  /\ allJobs' = [allJobs EXCEPT ![currentJob] = job]
         /\ stats' = [stats EXCEPT !.jobsCompleted = @ + 1,
                                   !.recordingsProcessed = @ + Len(results)]
         /\ sendWebhookNotification(job)
  /\ locals' = [path |-> "try", results |-> results, error |-> NoError]
  /\ UNCHANGED <<jobQueue, currentJob, isProcessing, jobIdCounter, now,
                 future, started, submitted, settledWith, removed>>
  /\ UNCHANGED <<batchVars, lookup>>

\* A plausible slip: a job with a failed recording is marked failed.
ProcessFunctionResolves_FailsOnPartial(results) ==
  /\ pc = "processFunction"
  /\ LET job == [allJobs[currentJob] EXCEPT
                   !.status = IF CountFailure(results) > 0 THEN "failed" ELSE "completed",
                   !.completedAt = now,
                   !.results = results,
                   !.recordingsCompleted = CountSuccess(results),
                   !.recordingsFailed = CountFailure(results)]
     IN  /\ allJobs' = [allJobs EXCEPT ![currentJob] = job]
         /\ stats' = [stats EXCEPT !.jobsCompleted = @ + 1,
                                   !.recordingsProcessed = @ + Len(results)]
         /\ sendWebhookNotification(job)
  /\ locals' = [path |-> "try", results |-> results, error |-> NoError]
  /\ UNCHANGED <<jobQueue, currentJob, isProcessing, jobIdCounter, now,
                 future, started, submitted, settledWith, removed>>
  /\ UNCHANGED <<batchVars, lookup>>

ProcessFunctionResolves(results) ==
  /\ pc = "processFunction"
  /\ LET job == [allJobs[currentJob] EXCEPT
                   !.status = "completed",
                   !.completedAt = now,
                   !.results = results,
                   !.recordingsCompleted = CountSuccess(results),
                   !.recordingsFailed = CountFailure(results)]
     IN  /\ allJobs' = [allJobs EXCEPT ![currentJob] = job]
         /\ stats' = [stats EXCEPT !.jobsCompleted = @ + 1,
                                   !.recordingsProcessed = @ + Len(results)]
         /\ sendWebhookNotification(job)
  /\ locals' = [path |-> "try", results |-> results, error |-> NoError]
  /\ UNCHANGED <<jobQueue, currentJob, isProcessing, jobIdCounter, now,
                 future, started, submitted, settledWith, removed>>
  /\ UNCHANGED <<batchVars, lookup>>

\* A plausible slip: the catch block sends no notification.
ProcessFunctionRejects_NoWebhook(message) ==
  /\ pc = "processFunction"
  /\ allJobs' = [allJobs EXCEPT ![currentJob].status = "failed",
                                ![currentJob].completedAt = now,
                                ![currentJob].error = message]
  /\ stats' = [stats EXCEPT !.jobsFailed = @ + 1]
  /\ pc' = "notified"
  /\ locals' = [path |-> "catch", results |-> <<>>, error |-> message]
  /\ UNCHANGED <<jobQueue, currentJob, isProcessing, jobIdCounter, now,
                 future, webhooks, response, started, submitted,
                 settledWith, removed>>
  /\ UNCHANGED <<batchVars, lookup>>

\* A plausible slip: the catch block does not store error.message.
ProcessFunctionRejects_NoErrorField(message) ==
  /\ pc = "processFunction"
  /\ LET job == [allJobs[currentJob] EXCEPT
                   !.status = "failed",
                   !.completedAt = now]
     IN  /\ allJobs' = [allJobs EXCEPT ![currentJob] = job]
         /\ stats' = [stats EXCEPT !.jobsFailed = @ + 1]
         /\ sendWebhookNotification(job)
  /\ locals' = [path |-> "catch", results |-> <<>>, error |-> message]
  /\ UNCHANGED <<jobQueue, currentJob, isProcessing, jobIdCounter, now,
                 future, started, submitted, settledWith, removed>>
  /\ UNCHANGED <<batchVars, lookup>>

\* processFunction(job) rejects: index.js 292-301
ProcessFunctionRejects(message) ==
  /\ pc = "processFunction"
  /\ LET job == [allJobs[currentJob] EXCEPT
                   !.status = "failed",
                   !.completedAt = now,
                   !.error = message]
     IN  /\ allJobs' = [allJobs EXCEPT ![currentJob] = job]
         /\ stats' = [stats EXCEPT !.jobsFailed = @ + 1]
         /\ sendWebhookNotification(job)
  /\ locals' = [path |-> "catch", results |-> <<>>, error |-> message]
  /\ UNCHANGED <<jobQueue, currentJob, isProcessing, jobIdCounter, now,
                 future, started, submitted, settledWith, removed>>
  /\ UNCHANGED <<batchVars, lookup>>

\* A plausible slip: a failed delivery marks the job failed.
FetchSettles_FailJob(outcome) ==
  /\ pc = "fetch"
  /\ response' = outcome
  /\ pc' = "notified"
  /\ allJobs' = IF outcome = "ok" THEN allJobs
                ELSE [allJobs EXCEPT ![currentJob].status = "failed",
                                     ![currentJob].error = outcome]
  /\ UNCHANGED <<jobQueue, currentJob, isProcessing, jobIdCounter,
                 stats, now, future, webhooks, started, submitted,
                 locals, settledWith, removed>>
  /\ UNCHANGED <<batchVars, lookup>>

\* fetch() settles and sendWebhookNotification returns: index.js 235-242.
\* Every outcome is only logged.
FetchSettles(outcome) ==
  /\ pc = "fetch"
  /\ response' = outcome
  /\ pc' = "notified"
  /\ UNCHANGED <<jobQueue, currentJob, isProcessing, allJobs, jobIdCounter,
                 stats, now, future, webhooks, started, submitted,
                 locals, settledWith, removed>>
  /\ UNCHANGED <<batchVars, lookup>>

\* A plausible slip: processNextJob() is called at the end of the try block
\* instead of the finally block, so a failed job does not drain the queue.
AfterNotification_NoDrainOnFailure ==
  /\ pc = "notified"
  /\ response' = NoResponse
  /\ settledWith' = [settledWith EXCEPT ![currentJob] =
                       IF locals.path = "try"
                       THEN ResolveValue(allJobs[currentJob], locals.results)
                       ELSE RejectValue(locals.error)]
  /\ locals' = NoLocals
  /\ removed' = removed \cup Deleted(allJobs)
  /\ IF locals.path = "try"
     THEN /\ future' = [future EXCEPT ![currentJob] = "resolved"]
          /\ processNextJob(FALSE, jobQueue, cleanupOldJobs(allJobs), NoJob)
     ELSE /\ future' = [future EXCEPT ![currentJob] = "rejected"]
          /\ currentJob' = NoJob
          /\ isProcessing' = FALSE
          /\ allJobs' = cleanupOldJobs(allJobs)
          /\ pc' = "idle"
          /\ UNCHANGED <<jobQueue, started>>
  /\ UNCHANGED <<jobIdCounter, stats, now, webhooks, submitted>>
  /\ UNCHANGED <<batchVars, lookup>>

\* A plausible slip: a failed job is put back at the head of the queue and
\* tried again.
AfterNotification_RetryOnFailure ==
  /\ pc = "notified"
  /\ future' = [future EXCEPT ![currentJob] =
                  IF locals.path = "try" THEN "resolved" ELSE "rejected"]
  /\ settledWith' = [settledWith EXCEPT ![currentJob] =
                       IF locals.path = "try"
                       THEN ResolveValue(allJobs[currentJob], locals.results)
                       ELSE RejectValue(locals.error)]
  /\ locals' = NoLocals
  /\ removed' = removed \cup Deleted(allJobs)
  /\ response' = NoResponse
  /\ processNextJob(FALSE,
                    IF locals.path = "try" THEN jobQueue ELSE <<currentJob>> \o jobQueue,
                    cleanupOldJobs(allJobs), NoJob)
  /\ UNCHANGED <<jobIdCounter, stats, now, webhooks, submitted>>
  /\ UNCHANGED <<batchVars, lookup>>

\* A plausible slip: the catch block calls resolve instead of reject.
AfterNotification_AlwaysResolves ==
  /\ pc = "notified"
  /\ future' = [future EXCEPT ![currentJob] = "resolved"]
  /\ settledWith' = [settledWith EXCEPT ![currentJob] =
                       ResolveValue(allJobs[currentJob], locals.results)]
  /\ locals' = NoLocals
  /\ removed' = removed \cup Deleted(allJobs)
  /\ response' = NoResponse
  /\ processNextJob(FALSE, jobQueue, cleanupOldJobs(allJobs), NoJob)
  /\ UNCHANGED <<jobIdCounter, stats, now, webhooks, submitted>>
  /\ UNCHANGED <<batchVars, lookup>>

\* After `await sendWebhookNotification(job)`: resolve (end of the try
\* block) or reject (end of the catch block) the caller's promise, then the
\* finally block (index.js 283-291, 303-313).
AfterNotification ==
  /\ pc = "notified"
  /\ future' = [future EXCEPT ![currentJob] =
                  IF locals.path = "try" THEN "resolved" ELSE "rejected"]
  /\ settledWith' = [settledWith EXCEPT ![currentJob] =
                       IF locals.path = "try"
                       THEN ResolveValue(allJobs[currentJob], locals.results)
                       ELSE RejectValue(locals.error)]
  /\ locals' = NoLocals
  /\ removed' = removed \cup Deleted(allJobs)
  /\ response' = NoResponse
  /\ processNextJob(FALSE, jobQueue, cleanupOldJobs(allJobs), NoJob)
  /\ UNCHANGED <<jobIdCounter, stats, now, webhooks, submitted>>
  /\ UNCHANGED <<batchVars, lookup>>

\* Time passes.
Tick ==
  /\ now < MaxTime
  /\ now' = now + 1
  /\ UNCHANGED <<jobQueue, currentJob, isProcessing, allJobs, jobIdCounter,
                 stats, pc, future, webhooks, response, started, submitted,
                 locals, settledWith, removed>>
  /\ UNCHANGED <<batchVars, lookup>>

\* ------------------------------------------------ processRecordingsInJob
SessionIds == {"s1", "s2"}
RecordingLists == SeqsUpTo([sessionId : SessionIds], MaxUnits)
\* options.maxConcurrent; 0 stands for every falsy value, absent included
BatchOptions == [maxConcurrent : 0..MaxK]

NoResult  == [success |-> FALSE, sessionId |-> "none", error |-> NoError]
NoOutcome == [kind |-> "none", value |-> NoResult, message |-> NoError]
PendingPromise == [state |-> "pending", value |-> NoResult]
NotCalled == [state |-> "none", value |-> <<>>]

\* What one processFunc(recording, index, total) call can do: resolve with a
\* result object of its own making, or throw an Error.
ProcessFuncOutcomes(recording) ==
  {[kind |-> "return", message |-> NoError,
    value |-> [success |-> TRUE, sessionId |-> recording.sessionId, error |-> NoError]],
   [kind |-> "return", message |-> NoError,
    value |-> [success |-> FALSE, sessionId |-> recording.sessionId, error |-> "boom"]]}
  \cup {[kind |-> "throw", message |-> m, value |-> NoResult] : m \in Messages}

AllOutcomes ==
  UNION {ProcessFuncOutcomes(r) : r \in [sessionId : SessionIds]}

\* A plausible slip: the option is read from the wrong place and the
\* configured default always wins.
maxConcurrent_IgnoresOption(opts) == ConfigMaxConcurrent

maxConcurrent(opts) ==
  IF opts.maxConcurrent # 0 THEN opts.maxConcurrent ELSE ConfigMaxConcurrent

\* pLimit(concurrency): nothing active, nothing queued.
pLimit(concurrency) ==
  [concurrency |-> concurrency, activeCount |-> 0, queue |-> <<>>]

\* The limiter starts queued functions, oldest first, while fewer than
\* `concurrency` are active; `started` are the indexes it started.
Dequeue(l) ==
  LET free == l.concurrency - l.activeCount
      m    == IF free < Len(l.queue) THEN free ELSE Len(l.queue)
  IN  [limit   |-> [l EXCEPT !.activeCount = @ + m,
                             !.queue = SubSeq(@, m + 1, Len(@))],
       started |-> {l.queue[j] : j \in 1..m}]

\* A plausible slip: the try/catch around processFunc is missing, so the
\* limited function rejects with the error.
Unit_NoCatch(recording, outcome) ==
  IF outcome.kind = "return"
  THEN [state |-> "fulfilled", value |-> outcome.value]
  ELSE [state |-> "rejected", value |-> [NoResult EXCEPT !.error = outcome.message]]

\* The async function handed to limit(): how its promise settles.
Unit(recording, outcome) ==
  IF outcome.kind = "return"
  THEN [state |-> "fulfilled", value |-> outcome.value]
  ELSE [state |-> "fulfilled",
        value |-> [success |-> FALSE, sessionId |-> recording.sessionId,
                   error |-> outcome.message]]

\* Promise.all(promises): rejected as soon as one is, fulfilled with the
\* values by index once all are.
PromiseAll(ps) ==
  IF \E i \in DOMAIN ps : ps[i].state = "rejected"
  THEN [state |-> "rejected",
        value |-> <<ps[CHOOSE i \in DOMAIN ps : ps[i].state = "rejected"].value>>]
  ELSE IF \A i \in DOMAIN ps : ps[i].state = "fulfilled"
       THEN [state |-> "fulfilled", value |-> [i \in DOMAIN ps |-> ps[i].value]]
       ELSE [state |-> "pending", value |-> <<>>]

ProcessRecordingsInJob(recs, opts) ==
  /\ returned.state = "none"
  /\ LET n == Len(recs)
         d == Dequeue([pLimit(maxConcurrent(opts)) EXCEPT !.queue = [i \in 1..n |-> i]])
     IN  /\ recordings' = recs
         /\ batchOptions' = opts
         /\ limit' = d.limit
         /\ inFlight' = d.started
         /\ promises' = [i \in 1..n |-> PendingPromise]
         /\ outcomes' = [i \in 1..n |-> NoOutcome]
         /\ settleOrder' = <<>>
         /\ returned' = PromiseAll([i \in 1..n |-> PendingPromise])
  /\ UNCHANGED <<queueVars, lookup>>

\* A plausible slip: each result is pushed to a shared list when its unit
\* finishes, and that list is returned.
UnitSettles_PushOnCompletion(i, outcome) ==
  /\ i \in inFlight
  /\ outcome \in ProcessFuncOutcomes(recordings[i])
  /\ LET d  == Dequeue([limit EXCEPT !.activeCount = @ - 1])
         ps == [promises EXCEPT ![i] = Unit(recordings[i], outcome)]
         order == Append(settleOrder, i)
     IN  /\ limit' = d.limit
         /\ inFlight' = (inFlight \ {i}) \cup d.started
         /\ promises' = ps
         /\ settleOrder' = order
         /\ returned' = IF PromiseAll(ps).state = "fulfilled"
                        THEN [state |-> "fulfilled",
                              value |-> [j \in DOMAIN order |-> ps[order[j]].value]]
                        ELSE returned
  /\ outcomes' = [outcomes EXCEPT ![i] = outcome]
  /\ UNCHANGED <<recordings, batchOptions, queueVars, lookup>>

\* One processFunc call settles: the limited function returns, the limiter
\* counts it out and starts the next queued one, and Promise.all looks again.
UnitSettles(i, outcome) ==
  /\ i \in inFlight
  /\ outcome \in ProcessFuncOutcomes(recordings[i])
  /\ LET d  == Dequeue([limit EXCEPT !.activeCount = @ - 1])
         ps == [promises EXCEPT ![i] = Unit(recordings[i], outcome)]
     IN  /\ limit' = d.limit
         /\ inFlight' = (inFlight \ {i}) \cup d.started
         /\ promises' = ps
         /\ returned' = IF returned.state = "pending" THEN PromiseAll(ps) ELSE returned
  /\ settleOrder' = Append(settleOrder, i)
  /\ outcomes' = [outcomes EXCEPT ![i] = outcome]
  /\ UNCHANGED <<recordings, batchOptions, queueVars, lookup>>

\* ------------------------------------- queueJob with a malformed callback
\* The message of the TypeError that calling a non-function throws.
NotAFunction == "processFunction is not a function"

\* queueJob(options, processFunction) where processFunction is not callable,
\* called while no job is active (behind an active job the entry waits like
\* any other and meets the same fate at its turn). Nothing checks the
\* argument: the record is created and pushed, processNextJob shifts it and
\* marks it processing, the call at line 266 throws inside the try block
\* and the catch block fails the job and awaits the webhook notification.
QueueJobNotCallable(options) ==
  /\ Len(submitted) < MaxJobs
  /\ ~isProcessing
  /\ LET id  == generateJobId(jobIdCounter)
         job == [createJob(options, id, now) EXCEPT
                   !.status = "failed",
                   !.startedAt = now,
                   !.completedAt = now,
                   !.error = NotAFunction]
     IN  /\ jobIdCounter' = id
         /\ submitted' = Append(submitted, id)
         /\ started' = Append(started, id)
         /\ future' = [future EXCEPT ![id] = "pending"]
         /\ allJobs' = MapSet(allJobs, id, job)
         /\ currentJob' = id
         /\ sendWebhookNotification(job)
  /\ jobQueue' = jobQueue
  /\ isProcessing' = TRUE
  /\ stats' = [stats EXCEPT !.jobsFailed = @ + 1]
  /\ locals' = [path |-> "catch", results |-> <<>>, error |-> NotAFunction]
  /\ UNCHANGED <<now, settledWith, removed>>
  /\ UNCHANGED <<batchVars, lookup>>

\* ------------------------------------------- getQueueStats / getActiveJobs
NoCurrent == [id |-> NoJob, status |-> "null",
              recordingsCompleted |-> 0, recordingsTotal |-> 0]

getQueueStats(current, queue, jobs, st) ==
  [currentJob  |-> IF current # NoJob
                   THEN [id |-> jobs[current].id,
                         status |-> jobs[current].status,
                         recordingsCompleted |-> jobs[current].recordingsCompleted,
                         recordingsTotal |-> jobs[current].recordingsTotal]
                   ELSE NoCurrent,
   queueLength |-> Len(queue),
   queuedJobs  |-> [i \in 1..Len(queue) |->
                      [id |-> jobs[queue[i]].id,
                       recordingsTotal |-> jobs[queue[i]].recordingsTotal]],
   stats       |-> st,
   maxConcurrent |-> ConfigMaxConcurrent]

\* A plausible slip: the pending jobs are pushed before the current one.
getActiveJobs_QueueFirst(current, queue, jobs) ==
  [i \in 1..Len(queue) |-> jobs[queue[i]]]
    \o (IF current # NoJob THEN <<jobs[current]>> ELSE <<>>)

getActiveJobs(current, queue, jobs) ==
  (IF current # NoJob THEN <<jobs[current]>> ELSE <<>>)
    \o [i \in 1..Len(queue) |-> jobs[queue[i]]]

\* ----------------------------------------------------------- getJobStatus
NullJob == [id |-> NoJob, status |-> "null"]
NoLookup == [jobId |-> NoJob, result |-> NullJob]

getJobStatus(jobs, jobId) ==
  IF jobId \in DOMAIN jobs THEN jobs[jobId] ELSE NullJob

\* A plausible slip: a get-or-create lookup that stores a fresh record for
\* an id it does not know.
GetJobStatus_GetOrCreate(jobId) ==
  /\ allJobs' = IF jobId \in DOMAIN allJobs THEN allJobs
                ELSE MapSet(allJobs, jobId,
                            createJob([recordingsCount |-> 0, webhookUrl |-> NoUrl,
                                       outputDir |-> "./recordings"], jobId, now))
  /\ lookup' = [jobId |-> jobId, result |-> getJobStatus(allJobs', jobId)]
  /\ UNCHANGED <<jobQueue, currentJob, isProcessing, jobIdCounter, stats,
                 now, pc, future, webhooks, response, started, submitted,
                 locals, settledWith, removed>>
  /\ UNCHANGED batchVars

GetJobStatus(jobId) ==
  /\ lookup' = [jobId |-> jobId, result |-> getJobStatus(allJobs, jobId)]
  /\ UNCHANGED <<queueVars, batchVars>>

BatchIdle ==
  /\ recordings = <<>>
  /\ batchOptions = [maxConcurrent |-> 0]
  /\ limit = pLimit(ConfigMaxConcurrent)
  /\ inFlight = {}
  /\ promises = <<>>
  /\ outcomes = <<>>
  /\ settleOrder = <<>>
  /\ returned = NotCalled
  /\ lookup = NoLookup

Init ==
  /\ jobQueue = <<>>
  /\ currentJob = NoJob
  /\ isProcessing = FALSE
  /\ allJobs = <<>>
  /\ jobIdCounter = 0
  /\ stats = [jobsCompleted |-> 0, jobsFailed |-> 0, recordingsProcessed |-> 0]
  /\ now = 1
  /\ pc = "idle"
  /\ future = [id \in JobIds |-> "none"]
  /\ webhooks = <<>>
  /\ response = NoResponse
  /\ started = <<>>
  /\ submitted = <<>>
  /\ locals = NoLocals
  /\ settledWith = [id \in JobIds |-> NoValue]
  /\ removed = {}
  /\ BatchIdle

Next ==
  \/ \E options \in Options : QueueJob(options)
  \/ \E results \in ResultLists : ProcessFunctionResolves(results)
  \/ \E message \in Messages : ProcessFunctionRejects(message)
  \/ \E outcome \in FetchOutcomes : FetchSettles(outcome)
  \/ AfterNotification
  \/ Tick

Spec == Init /\ [][Next]_vars

\* A process that has already finished KeepLast jobs: the store holds their
\* records (each an empty job without webhook, finished within the first
\* clock value) and the counter and statistics stand where they left them.
HistoryJob(id) ==
  [createJob([recordingsCount |-> 0, webhookUrl |-> NoUrl,
              outputDir |-> "./recordings"], id, 1)
     EXCEPT !.status = "completed", !.startedAt = 1, !.completedAt = 1]

RetentionInit ==
  /\ jobQueue = <<>>
  /\ currentJob = NoJob
  /\ isProcessing = FALSE
  /\ allJobs = [id \in 1..KeepLast |-> HistoryJob(id)]
  /\ jobIdCounter = KeepLast
  /\ stats = [jobsCompleted |-> KeepLast, jobsFailed |-> 0, recordingsProcessed |-> 0]
  /\ now = 1
  /\ pc = "idle"
  /\ future = [id \in 1..(KeepLast + MaxJobs) |->
                 IF id <= KeepLast THEN "resolved" ELSE "none"]
  /\ webhooks = <<>>
  /\ response = NoResponse
  /\ started = <<>>
  /\ submitted = <<>>
  /\ locals = NoLocals
  /\ settledWith = [id \in 1..(KeepLast + MaxJobs) |->
                      IF id <= KeepLast THEN ResolveValue(HistoryJob(id), <<>>)
                      ELSE NoValue]
  /\ removed = {}
  /\ BatchIdle

\* Trimming never looks at a webhook, so the jobs submitted on top of the
\* history carry none and sendWebhookNotification returns at line 211.
RetentionNext ==
  \/ \E options \in Options : options.webhookUrl = NoUrl /\ QueueJob(options)
  \/ \E results \in ResultLists : ProcessFunctionResolves(results)
  \/ \E message \in Messages : ProcessFunctionRejects(message)
  \/ AfterNotification
  \/ Tick

RetentionSpec == RetentionInit /\ [][RetentionNext]_vars

\* The same process receiving jobs that carry a webhookUrl: each finished
\* job waits for its POST before the finally block trims the store.  The
\* clock stands still.
DeliveryNext ==
  \/ \E options \in Options : options.webhookUrl # NoUrl /\ QueueJob(options)
  \/ \E results \in ResultLists : ProcessFunctionResolves(results)
  \/ \E message \in Messages : ProcessFunctionRejects(message)
  \/ \E outcome \in FetchOutcomes : FetchSettles(outcome)
  \/ AfterNotification

DeliverySpec == RetentionInit /\ [][DeliveryNext]_vars

\* The queue with callers that may hand queueJob something that is not a
\* function.
SubmitNext ==
  \/ \E options \in Options : QueueJob(options)
  \/ \E options \in Options : QueueJobNotCallable(options)
  \/ \E results \in ResultLists : ProcessFunctionResolves(results)
  \/ \E message \in Messages : ProcessFunctionRejects(message)
  \/ \E outcome \in FetchOutcomes : FetchSettles(outcome)
  \/ AfterNotification
  \/ Tick

SubmitSpec == Init /\ [][SubmitNext]_vars

\* The queue used through all three exported operations; one kind of
\* options, no webhook, empty result lists, one error message and a clock
\* that stands still.
ExportsNext ==
  \/ \E options \in Options :
       /\ options.webhookUrl = NoUrl
       /\ options.recordingsCount = MaxRecs
       /\ (CreateJob(options) \/ QueueJob(options))
  \/ \E jobId \in JobIds : \E updates \in Updates(now) : UpdateJob(jobId, updates)
  \/ ProcessFunctionResolves(<<>>)
  \/ ProcessFunctionRejects("boom")
  \/ AfterNotification

ExportsSpec == Init /\ [][ExportsNext]_vars

\* A process that has issued LongRun ids: the store holds the last KeepLast
\* records, the counter stands at LongRun.
LongRunInit ==
  /\ jobQueue = <<>>
  /\ currentJob = NoJob
  /\ isProcessing = FALSE
  /\ allJobs = [id \in (LongRun - KeepLast + 1)..LongRun |-> HistoryJob(id)]
  /\ jobIdCounter = LongRun
  /\ stats = [jobsCompleted |-> LongRun, jobsFailed |-> 0, recordingsProcessed |-> 0]
  /\ now = 1
  /\ pc = "idle"
  /\ future = [id \in (LongRun - KeepLast + 1)..(LongRun + MaxJobs + 1) |->
                 IF id <= LongRun THEN "resolved" ELSE "none"]
  /\ webhooks = <<>>
  /\ response = NoResponse
  /\ started = <<>>
  /\ submitted = <<>>
  /\ locals = NoLocals
  /\ settledWith = [id \in (LongRun - KeepLast + 1)..(LongRun + MaxJobs + 1) |->
                      IF id <= LongRun THEN ResolveValue(HistoryJob(id), <<>>)
                      ELSE NoValue]
  /\ removed = {}
  /\ BatchIdle

\* The clock reaches the next second.
SecondPasses ==
  /\ now \div 1000 < MaxTime
  /\ now' = now + 1000
  /\ UNCHANGED <<jobQueue, currentJob, isProcessing, allJobs, jobIdCounter,
                 stats, pc, future, webhooks, response, started, submitted,
                 locals, settledWith, removed>>
  /\ UNCHANGED <<batchVars, lookup>>

\* Jobs created directly and through queueJob, in a fresh process and in a
\* long-running one, within one second and across seconds; one kind of
\* options, no webhook, no rejection and empty result lists, none of which
\* an id depends on.
IdInit == Init \/ LongRunInit

IdNext ==
  \/ \E options \in Options :
       /\ options.webhookUrl = NoUrl
       /\ options.recordingsCount = MaxRecs
       /\ (CreateJob(options) \/ QueueJob(options))
  \/ ProcessFunctionResolves(<<>>)
  \/ AfterNotification
  \/ SecondPasses

IdSpec == IdInit /\ [][IdNext]_vars

\* Lookups while jobs are submitted on top of the history: of the oldest
\* record, of the first id issued next and of an id never issued. One kind
\* of submission and a clock that stands still, neither of which a lookup
\* depends on; with every completedAt equal, the stable sort of
\* cleanupOldJobs ranks the newest record last and deletes it.
LookupIds == {1, KeepLast + 1, KeepLast + MaxJobs + 1}

LookupNext ==
  \/ \E options \in Options :
       /\ options.webhookUrl = NoUrl
       /\ options.recordingsCount = MaxRecs
       /\ QueueJob(options)
  \/ \E results \in ResultLists : ProcessFunctionResolves(results)
  \/ \E message \in Messages : ProcessFunctionRejects(message)
  \/ AfterNotification
  \/ \E jobId \in LookupIds : GetJobStatus(jobId)

LookupSpec == RetentionInit /\ [][LookupNext]_vars

\* Jobs whose callback resolves with result lists of up to MaxResults
\* entries, whatever recordingsCount says; one kind of submission, no
\* webhook, no rejection and a clock that stands still, none of which the
\* handling of the list depends on.
LongResultLists == SeqsUpTo(BOOLEAN, MaxResults)

ResultsNext ==
  \/ \E options \in Options :
       /\ options.webhookUrl = NoUrl
       /\ options.recordingsCount = MaxRecs
       /\ QueueJob(options)
  \/ \E results \in LongResultLists : ProcessFunctionResolves(results)
  \/ AfterNotification

ResultsSpec == Init /\ [][ResultsNext]_vars

\* One call of processRecordingsInJob, with the units settling in any order.
LimiterNext ==
  \/ \E recs \in RecordingLists : \E opts \in BatchOptions :
       ProcessRecordingsInJob(recs, opts)
  \/ \E i \in 1..MaxUnits : \E outcome \in AllOutcomes : UnitSettles(i, outcome)

LimiterSpec == Init /\ [][LimiterNext]_vars

\* Every processFunc call that was started settles.
LimiterFairSpec ==
  LimiterSpec /\ WF_vars(\E i \in 1..MaxUnits : \E outcome \in AllOutcomes :
                           UnitSettles(i, outcome))

\* The event loop runs every continuation that is ready; the processing
\* callback settles (the hypothesis of the liveness claim) and fetch()
\* settles with a response or an error.
FairSpec ==
  /\ Spec
  /\ WF_vars(\E results \in ResultLists : ProcessFunctionResolves(results))
  /\ WF_vars(\E message \in Messages : ProcessFunctionRejects(message))
  /\ WF_vars(\E outcome \in FetchOutcomes : FetchSettles(outcome))
  /\ WF_vars(AfterNotification)

\* ================================================================ claims
Has(id) == id \in DOMAIN allJobs
Processing == {id \in DOMAIN allJobs : allJobs[id].status = "processing"}
Attempts(id) == {i \in 1..Len(webhooks) : webhooks[i].jobId = id}
FailedDelivery == {"non2xx", "networkError"}

\* C1: in every reachable state at most one job record has status
\* 'processing'.
C1_AtMostOneProcessing == Cardinality(Processing) <= 1

C1_Witness ==
  /\ Cardinality(Processing) = 1
  /\ Len(jobQueue) = 2

\* C2: jobs are marked 'processing' in exactly the order in which queueJob
\* was called for them: the sequence of started jobs is a prefix of the
\* sequence of submitted jobs.
C2_StartOrderIsSubmissionOrder ==
  /\ Len(started) <= Len(submitted)
  /\ \A i \in 1..Len(started) : started[i] = submitted[i]

C2_Witness ==
  /\ started = <<1, 2, 3>>
  /\ allJobs[3].createdAt < allJobs[2].startedAt

\* C3: a job that has started (is processing or terminal) started only after
\* every job submitted before it became terminal, and its startedAt is not
\* earlier than the completedAt of any of them.
C3_NoLookAhead ==
  \A i, j \in 1..Len(submitted) :
    (i < j /\ Has(submitted[j]) /\ allJobs[submitted[j]].status # "queued")
      => \/ ~Has(submitted[i])
         \/ /\ Terminal(allJobs[submitted[i]])
            /\ allJobs[submitted[j]].startedAt >= allJobs[submitted[i]].completedAt

C3_Witness ==
  /\ Has(1) /\ Has(2) /\ Has(3)
  /\ allJobs[1].status = "failed"
  /\ allJobs[2].status = "processing"
  /\ allJobs[3].status = "queued"
  /\ allJobs[2].createdAt < allJobs[1].completedAt
  /\ allJobs[2].startedAt = allJobs[1].completedAt

\* C4: a job with a webhookUrl gets exactly one POST attempt, issued once it
\* is completed or failed and carrying that status; before that it has none,
\* and a job without a webhookUrl never has one.
C4_OneWebhookPerTerminalJob ==
  \A id \in DOMAIN allJobs :
    LET job == allJobs[id]
    IN  /\ Cardinality(Attempts(id)) =
             IF job.webhookUrl # NoUrl /\ Terminal(job) THEN 1 ELSE 0
        /\ \A i \in Attempts(id) : webhooks[i].status = job.status

C4_Witness ==
  /\ pc = "idle"
  /\ \E a, b, c \in DOMAIN allJobs :
       /\ allJobs[a].status = "completed" /\ allJobs[a].webhookUrl # NoUrl
       /\ allJobs[b].status = "failed" /\ allJobs[b].webhookUrl # NoUrl
       /\ Terminal(allJobs[c]) /\ allJobs[c].webhookUrl = NoUrl
       /\ Cardinality(Attempts(a)) = 1
       /\ Cardinality(Attempts(b)) = 1
       /\ Cardinality(Attempts(c)) = 0

C6_Original ==
  (response = "pending" /\ jobQueue # <<>>) => Processing # {}

\* C6 as amended: the notification is awaited.  While the finished job's
\* POST is in flight no job is processing: the next pending job is marked
\* 'processing' only after the POST attempt has settled.
C6_NotificationAwaited ==
  response = "pending" =>
    /\ Processing = {}
    /\ isProcessing
    /\ Has(currentJob) /\ Terminal(allJobs[currentJob])

C6_Witness ==
  /\ response = "pending"
  /\ Len(jobQueue) = 2

\* C7: a failed webhook delivery (non-2xx or network error) changes no job
\* record and issues no further POST, and the promise then settles by the
\* job's status alone: resolved for completed, rejected for failed.
C7_FailedDeliveryIgnored ==
  [][ /\ (pc = "fetch" /\ pc' = "notified" /\ response' \in FailedDelivery)
         => (allJobs' = allJobs /\ webhooks' = webhooks /\ future' = future)
      /\ (pc = "notified" /\ response \in FailedDelivery /\ currentJob' # currentJob)
         => /\ webhooks' = webhooks
            /\ future'[currentJob] =
                 IF allJobs[currentJob].status = "completed"
                 THEN "resolved" ELSE "rejected"
            /\ currentJob \in DOMAIN allJobs' => allJobs'[currentJob] = allJobs[currentJob]
    ]_vars

C7_Witness ==
  /\ pc = "notified"
  /\ response = "networkError"
  /\ allJobs[currentJob].status = "completed"
  /\ allJobs[currentJob].results # <<>>

\* C8 as claimed: every completed job has len(results) = recordingsTotal and
\* recordingsCompleted + recordingsFailed = recordingsTotal.
C8_Original ==
  \A id \in DOMAIN allJobs :
    allJobs[id].status = "completed" =>
      /\ Len(allJobs[id].results) = allJobs[id].recordingsTotal
      /\ allJobs[id].recordingsCompleted + allJobs[id].recordingsFailed
           = allJobs[id].recordingsTotal

\* C8 as amended: every completed job has recordingsCompleted +
\* recordingsFailed = len(results), the successes and failures of the list
\* the callback resolved with; recordingsTotal stays the count given at
\* submission, so both equal it only when the list has that length.
C8_CountsMatchResults ==
  \A id \in DOMAIN allJobs :
    allJobs[id].status = "completed" =>
      /\ allJobs[id].recordingsCompleted + allJobs[id].recordingsFailed
           = Len(allJobs[id].results)
      /\ allJobs[id].recordingsFailed
           = Cardinality({i \in 1..Len(allJobs[id].results) : ~allJobs[id].results[i]})

C8_Witness ==
  \E id \in DOMAIN allJobs :
    /\ allJobs[id].status = "completed"
    /\ allJobs[id].recordingsTotal = 0
    /\ allJobs[id].recordingsFailed = 1

C11_RejectionFailsJob ==
  /\ locals.path = "catch" =>
       /\ Has(currentJob)
       /\ allJobs[currentJob].status = "failed"
       /\ allJobs[currentJob].error = locals.error
  /\ \A id \in DOMAIN allJobs :
       allJobs[id].status = "failed" =>
         /\ allJobs[id].error \in Messages
         /\ allJobs[id].completedAt # NoTime
         /\ allJobs[id].completedAt >= allJobs[id].startedAt
         /\ allJobs[id].webhookUrl # NoUrl =>
              \E i \in Attempts(id) : webhooks[i].status = "failed"
         /\ future[id] \in {"pending", "rejected"}
         /\ future[id] = "rejected" =>
              settledWith[id] = [NoValue EXCEPT !.error = allJobs[id].error]

C11_Witness ==
  \E id \in DOMAIN allJobs :
    /\ allJobs[id].status = "failed"
    /\ allJobs[id].error = "timeout"
    /\ allJobs[id].webhookUrl # NoUrl
    /\ future[id] = "rejected"
    /\ settledWith[id].error = "timeout"

\* C12: the promise queueJob returned settles once and stays settled; it
\* settles only while its own job is the current job and already terminal;
\* it is resolved only for a completed job, with jobId, folder, total,
\* completed, failed and results equal to the stored record's, and rejected
\* only for a failed job.
C12_FutureFollowsOwnJob ==
  /\ [](\A id \in DOMAIN allJobs :
          /\ future[id] = "resolved" =>
               /\ allJobs[id].status = "completed"
               /\ settledWith[id].success
               /\ settledWith[id].jobId = id
               /\ settledWith[id].folder = allJobs[id].folder
               /\ settledWith[id].total = allJobs[id].recordingsTotal
               /\ settledWith[id].completed = allJobs[id].recordingsCompleted
               /\ settledWith[id].failed = allJobs[id].recordingsFailed
               /\ settledWith[id].results = allJobs[id].results
          /\ future[id] = "rejected" => allJobs[id].status = "failed"
          /\ future[id] = "pending" => settledWith[id] = NoValue)
  /\ [][\A id \in DOMAIN future :
          /\ future[id] \in {"resolved", "rejected"} =>
               (future'[id] = future[id] /\ settledWith'[id] = settledWith[id])
          /\ (future[id] = "pending" /\ future'[id] # "pending") =>
               (id = currentJob /\ Terminal(allJobs[id]))
       ]_vars

C12_Witness ==
  /\ Has(1) /\ Has(2) /\ Has(3)
  /\ future[1] = "resolved" /\ settledWith[1].results # <<>>
  /\ future[2] = "rejected"
  /\ future[3] = "pending" /\ allJobs[3].status = "processing"

TerminalIds == {id \in DOMAIN allJobs : Terminal(allJobs[id])}
Idle == jobQueue = <<>> /\ currentJob = NoJob

\* C13: once more than 50 jobs have become terminal and no job is pending
\* or active, the store holds exactly 50 records, all terminal, and no
\* deleted record was completed later than a record that is kept.
C13_RetentionWindow ==
  (stats.jobsCompleted + stats.jobsFailed > KeepLast /\ Idle) =>
    /\ DOMAIN allJobs = TerminalIds
    /\ Cardinality(TerminalIds) = KeepLast
    /\ \A r \in removed : \A id \in DOMAIN allJobs :
         allJobs[id].completedAt >= r.completedAt

C13_Witness ==
  /\ Idle
  /\ stats.jobsCompleted + stats.jobsFailed = KeepLast + 2
  /\ Cardinality(removed) = 2
  /\ \E id \in DOMAIN allJobs : allJobs[id].completedAt = 2

\* C14: trimming deletes a record only if it is terminal and at least 50
\* other terminal records are at least as recent; every queued or processing
\* record survives every step, and after a deletion exactly 50 terminal
\* records remain however many unfinished records the store holds.
C14_OnlyTerminalOutsideWindowRemoved ==
  [][ /\ \A id \in DOMAIN allJobs :
           id \notin DOMAIN allJobs' =>
             /\ Terminal(allJobs[id])
             /\ Cardinality({y \in TerminalIds \ {id} :
                   allJobs[y].completedAt >= allJobs[id].completedAt}) >= KeepLast
      /\ \A id \in DOMAIN allJobs :
           ~Terminal(allJobs[id]) => id \in DOMAIN allJobs'
      /\ DOMAIN allJobs' # DOMAIN allJobs \cup DOMAIN allJobs' =>
           Cardinality({id \in DOMAIN allJobs' : Terminal(allJobs'[id])}) = KeepLast
    ]_vars

C14_Witness ==
  /\ removed # {}
  /\ Cardinality(TerminalIds) = KeepLast
  /\ Len(jobQueue) = 1
  /\ Cardinality(Processing) = 1

\* The maximum concurrency the caller of processRecordingsInJob asked for.
RequestedK ==
  IF batchOptions.maxConcurrent >= 1 THEN batchOptions.maxConcurrent
  ELSE ConfigMaxConcurrent

\* C15: with maximum concurrency k >= 1, never more than k units are in
\* flight (started and not yet settled), whatever order the units settle in.
C15_AtMostKInFlight == Cardinality(inFlight) <= RequestedK

C15_Witness ==
  /\ Len(recordings) = 3
  /\ batchOptions.maxConcurrent = 1
  /\ Cardinality(inFlight) = 1
  /\ Len(settleOrder) = 2

\* C16: the promise processRecordingsInJob returned is fulfilled with exactly
\* n results, and result i is what unit i produced, whatever order the units
\* completed in.
C16_ResultsInInputOrder ==
  returned.state = "fulfilled" =>
    /\ Len(returned.value) = Len(recordings)
    /\ \A i \in 1..Len(recordings) :
         /\ returned.value[i].sessionId = recordings[i].sessionId
         /\ outcomes[i].kind = "return" => returned.value[i] = outcomes[i].value
         /\ outcomes[i].kind = "throw" => returned.value[i].error = outcomes[i].message

C16_Witness ==
  /\ returned.state = "fulfilled"
  /\ settleOrder = <<3, 1, 2>>
  /\ recordings[1].sessionId # recordings[3].sessionId
  /\ returned.value[1].success /\ ~returned.value[3].success

\* C17: a unit that throws yields, at its own position, a result with
\* success false, the unit's sessionId and the error message; the returned
\* promise never rejects, every other unit is still started and settles,
\* and the promise is then fulfilled.
C17_ThrowingUnitIsolated ==
  /\ [](returned.state # "rejected")
  /\ [](\A i \in DOMAIN outcomes :
          outcomes[i].kind = "throw" =>
            /\ promises[i].state = "fulfilled"
            /\ promises[i].value = [success |-> FALSE,
                                    sessionId |-> recordings[i].sessionId,
                                    error |-> outcomes[i].message]
            /\ returned.state = "fulfilled" => returned.value[i] = promises[i].value)
  /\ \A j \in 1..MaxUnits :
       ((\E i \in DOMAIN outcomes : outcomes[i].kind = "throw") /\ j \in DOMAIN outcomes)
         ~> (/\ returned.state = "fulfilled"
             /\ j \in DOMAIN outcomes
             /\ outcomes[j].kind # "none")

C17_Witness ==
  /\ returned.state = "fulfilled"
  /\ Len(recordings) = 3
  /\ settleOrder[1] = 1
  /\ outcomes[1].kind = "throw"
  /\ outcomes[2].kind = "return" /\ outcomes[3].kind = "return"
  /\ returned.value[1].error = "timeout"
  /\ returned.value[2].success

\* The record of job j after its callback resolved with the list r.
CompletedWith(j, r) ==
  LET ok == {i \in 1..Len(r) : r[i]}
  IN  /\ j.status = "completed"
      /\ j.error = NoError
      /\ j.results = r
      /\ j.recordingsCompleted = Cardinality(ok)
      /\ j.recordingsFailed = Len(r) - Cardinality(ok)

\* C18: when the callback resolves with a result list, failed results
\* included, the job ends completed, not failed; results holds the list in
\* the given order, recordingsCompleted is the number of results with
\* success true and recordingsFailed the number of the others; and so it
\* stays after the job's promise has resolved.
C18_PartialFailureCompletes ==
  /\ locals.path = "try" => CompletedWith(allJobs[currentJob], locals.results)
  /\ \A id \in DOMAIN allJobs :
       future[id] = "resolved" => CompletedWith(allJobs[id], settledWith[id].results)

C18_Witness ==
  \E id \in DOMAIN allJobs :
    /\ future[id] = "resolved"
    /\ settledWith[id].results = <<TRUE, FALSE, TRUE, FALSE, TRUE>>
    /\ allJobs[id].status = "completed"
    /\ allJobs[id].results = <<TRUE, FALSE, TRUE, FALSE, TRUE>>
    /\ allJobs[id].recordingsCompleted = 3
    /\ allJobs[id].recordingsFailed = 2

NeverIssued(id) == id > jobIdCounter
Pruned(id) == \E r \in removed : r.id = id

\* C19: getJobStatus on an id that was never issued, or whose record has
\* been pruned, returns null and changes neither the store, the pending
\* queue nor the current job.
C19_UnknownIdNotFound ==
  [][\A id \in LookupIds :
       (lookup' # lookup /\ lookup'.jobId = id /\ (NeverIssued(id) \/ Pruned(id))) =>
         /\ lookup'.result = NullJob
         /\ UNCHANGED <<allJobs, jobQueue, currentJob>>]_vars

C19_Witness ==
  /\ lookup = [jobId |-> KeepLast + 1, result |-> NullJob]
  /\ Pruned(KeepLast + 1)
  /\ jobQueue # <<>>
  /\ currentJob # NoJob

ActiveJobs == getActiveJobs(currentJob, jobQueue, allJobs)
QueueStats == getQueueStats(currentJob, jobQueue, allJobs, stats)
\* The jobs submitted and not yet started, in submission order.
PendingIds == SubSeq(submitted, Len(started) + 1, Len(submitted))
\* The job started last, while the promise queueJob returned for it is unsettled.
CurrentIds ==
  IF started # <<>> /\ future[started[Len(started)]] = "pending"
  THEN <<started[Len(started)]>> ELSE <<>>

\* C20 as stated: getActiveJobs returns the current job followed by the
\* pending jobs in FIFO order, every job it returns is queued or processing,
\* and the currentJob of getQueueStats, when not null, is processing.
C20_Original ==
  /\ [i \in 1..Len(ActiveJobs) |-> ActiveJobs[i].id] = CurrentIds \o PendingIds
  /\ \A i \in 1..Len(ActiveJobs) : ActiveJobs[i].status \in {"queued", "processing"}
  /\ QueueStats.currentJob # NoCurrent => QueueStats.currentJob.status = "processing"

\* C20: getActiveJobs returns the current job followed by the pending jobs
\* in FIFO order; every pending job is queued; the current job is processing
\* until its callback settles and completed or failed from then until its
\* webhook notification has been awaited and the job is cleared; the
\* currentJob of getQueueStats is that same job with that same status.
C20_ActiveJobsListing ==
  /\ [i \in 1..Len(ActiveJobs) |-> ActiveJobs[i].id] = CurrentIds \o PendingIds
  /\ \A i \in 1..Len(ActiveJobs) :
       i > Len(CurrentIds) => ActiveJobs[i].status = "queued"
  /\ CurrentIds # <<>> =>
       /\ pc = "processFunction" => ActiveJobs[1].status = "processing"
       /\ pc \in {"fetch", "notified"} =>
            ActiveJobs[1].status = (IF locals.path = "try" THEN "completed" ELSE "failed")
       /\ QueueStats.currentJob.id = ActiveJobs[1].id
       /\ QueueStats.currentJob.status = ActiveJobs[1].status
  /\ CurrentIds = <<>> => QueueStats.currentJob = NoCurrent
  /\ QueueStats.queueLength = Len(PendingIds)

C20_Witness ==
  /\ pc = "fetch"
  /\ Len(ActiveJobs) = 3
  /\ ActiveJobs[1].status = "completed"
  /\ ActiveJobs[2].status = "queued" /\ ActiveJobs[3].status = "queued"
  /\ ActiveJobs[2].id < ActiveJobs[3].id
  /\ QueueStats.currentJob.status = "completed"

\* Every record created since the initial state, stored or deleted.
EverCreated == {allJobs[id] : id \in DOMAIN allJobs} \cup removed

\* C21: any two distinct jobs created in one process run have different
\* ids and different folders under the same base directory, also when they
\* are created within the same second: there are as many id texts, and as
\* many folders, as there are jobs.
C21_IdsUnique ==
  LET jobs == Cardinality({a.id : a \in EverCreated})
  IN  /\ Cardinality({IdText(a) : a \in EverCreated}) = jobs
      /\ Cardinality({FolderText(a) : a \in EverCreated}) = jobs

C21_Witness ==
  \E a \in EverCreated : \E b \in EverCreated :
    /\ a.id = 999 /\ b.id = 1000
    /\ a.createdAt = b.createdAt
    /\ Len(IdText(b)) = Len(IdText(a)) + 1
    /\ SubSeq(IdText(a), 1, 18) = SubSeq(IdText(b), 1, 18)

\* C22 as stated: a malformed submission is rejected before anything is
\* enqueued: the step creates no job record, leaves the pending queue as it
\* was and invokes no processing callback.
C22_Original ==
  [][(\E options \in Options : QueueJobNotCallable(options)) =>
       /\ DOMAIN allJobs' = DOMAIN allJobs
       /\ jobQueue' = jobQueue
       /\ started' = started]_vars

\* How often the processing callback of job id has been invoked: the
\* callback is called in the step that marks the job processing.
Invocations(id) == Cardinality({i \in 1..Len(started) : started[i] = id})

\* C23: the processing callback of a job is invoked exactly once over the
\* job's life: not at all while the job is queued, once when it becomes
\* processing, and never again after it settled, whether it resolved or
\* rejected.
C23_CallbackInvokedOnce ==
  \A id \in DOMAIN allJobs :
    /\ allJobs[id].status = "queued" => Invocations(id) = 0
    /\ allJobs[id].status # "queued" => Invocations(id) = 1

C23_Witness ==
  /\ Has(1) /\ Has(2) /\ Has(3)
  /\ allJobs[1].status = "failed" /\ Invocations(1) = 1
  /\ allJobs[2].status = "completed" /\ Invocations(2) = 1
  /\ allJobs[3].status = "processing" /\ Invocations(3) = 1

\* C24: queueJob never waits for a prior job. If no job is active when it
\* is called, the new job is processing, and is the current job, when it
\* returns; if a job is active, the new job is appended at the tail of the
\* pending list with status queued, and the active job, every other record
\* and the order of the jobs already pending are unchanged.
C24_QueueJobFrame ==
  [][Len(submitted') > Len(submitted) =>
       LET id == submitted'[Len(submitted')]
       IN  /\ id \notin DOMAIN allJobs
           /\ id \in DOMAIN allJobs'
           /\ future'[id] = "pending"
           /\ \A other \in DOMAIN allJobs : allJobs'[other] = allJobs[other]
           /\ ~isProcessing =>
                /\ allJobs'[id].status = "processing"
                /\ currentJob' = id
                /\ jobQueue' = jobQueue
           /\ isProcessing =>
                /\ allJobs'[id].status = "queued"
                /\ jobQueue' = Append(jobQueue, id)
                /\ currentJob' = currentJob
                /\ pc' = pc]_vars

C24_Witness ==
  /\ Len(submitted) = 3
  /\ jobQueue = <<2, 3>>
  /\ currentJob = 1
  /\ allJobs[1].status = "processing"
  /\ allJobs[2].status = "queued" /\ allJobs[3].status = "queued"

\* The jobs with a webhookUrl that are terminal, in the order they became
\* terminal: jobs run one at a time, so that is the order they were started in.
NotifiableInOrder ==
  SelectSeq(started, LAMBDA id : /\ Terminal(allJobs[id])
                                 /\ allJobs[id].webhookUrl # NoUrl)

\* C25: webhook notifications are issued in job completion order: the POSTs
\* issued so far are those of the terminal jobs that have a webhookUrl, in
\* the order these jobs became terminal, and their completion times never
\* decrease along that order.
C25_WebhooksInCompletionOrder ==
  /\ [i \in 1..Len(webhooks) |-> webhooks[i].jobId] = NotifiableInOrder
  /\ \A i \in 1..Len(webhooks) : \A k \in 1..Len(webhooks) :
       i < k => allJobs[webhooks[i].jobId].completedAt
                  <= allJobs[webhooks[k].jobId].completedAt

C25_Witness ==
  /\ Len(webhooks) = 2
  /\ webhooks[1].jobId = 1 /\ webhooks[1].status = "failed"
  /\ webhooks[2].jobId = 3 /\ webhooks[2].status = "completed"
  /\ allJobs[2].webhookUrl = NoUrl /\ Terminal(allJobs[2])
  /\ allJobs[1].completedAt < allJobs[3].completedAt

\* C26: a job's error field is non-null only if its status is failed; a
\* queued, processing or completed job has error null, a completed job
\* whose tasks failed included.
C26_ErrorOnlyWhenFailed ==
  \A id \in DOMAIN allJobs :
    allJobs[id].error # NoError => allJobs[id].status = "failed"

C26_Witness ==
  \E a \in DOMAIN allJobs : \E b \in DOMAIN allJobs :
    /\ allJobs[a].status = "completed"
    /\ allJobs[a].results = <<FALSE>>
    /\ allJobs[a].error = NoError
    /\ allJobs[b].status = "failed"
    /\ allJobs[b].error = "timeout"

\* C27 as stated: the trim that runs when a job finishes never removes that
\* job's own record: in the step that settles a job's promise, getJobStatus
\* for its id still returns the terminal record.
C27_Original ==
  [][\A id \in DOMAIN future :
       (future[id] = "pending" /\ future'[id] \in {"resolved", "rejected"}) =>
         /\ getJobStatus(allJobs', id) # NullJob
         /\ Terminal(getJobStatus(allJobs', id))]_vars

\* C28 as stated: the jobs in the pending list are exactly the jobs in the
\* store whose status is queued, each appearing once, for every sequence of
\* createJob, updateJob and queueJob.
C28_Original ==
  /\ \A i \in 1..Len(jobQueue) : \A k \in 1..Len(jobQueue) :
       i # k => jobQueue[i] # jobQueue[k]
  /\ {jobQueue[i] : i \in 1..Len(jobQueue)} =
       {id \in DOMAIN allJobs : allJobs[id].status = "queued"}

\* The jobs started before the job at position i of the start order.
StartedBefore(i) == {started[k] : k \in 1..(i - 1)}

\* C29: the promise queueJob returned for a job with a webhookUrl settles
\* only after that job's POST attempt has finished (the POST was issued and
\* its outcome, success or failure, is known), and it settles before the
\* next pending job is marked 'processing': no job is processing when it
\* settles, and a job is processing only when the promise of every job
\* started before it has settled.
C29_SettledAfterPostBeforeNext ==
  [][/\ \A id \in DOMAIN future :
          (/\ future[id] = "pending"
           /\ future'[id] \in {"resolved", "rejected"}
           /\ Has(id) /\ allJobs[id].webhookUrl # NoUrl) =>
             /\ Attempts(id) # {}
             /\ response \in FetchOutcomes
             /\ Processing = {}
     /\ \A i \in 1..Len(started') :
          (started'[i] \in DOMAIN allJobs' /\ allJobs'[started'[i]].status = "processing") =>
            \A id \in {started'[k] : k \in 1..(i - 1)} :
              future'[id] \in {"resolved", "rejected"}]_vars

C29_Witness ==
  /\ Len(started) >= 2
  /\ Has(started[1]) /\ allJobs[started[1]].webhookUrl # NoUrl
  /\ Attempts(started[1]) # {}
  /\ future[started[1]] = "rejected"
  /\ allJobs[started[2]].status = "processing"
  /\ StartedBefore(2) = {started[1]}

\* C30 as claimed: job history is bounded at every instant; in no reachable
\* state, not even while a finished job's webhook delivery is in progress,
\* does the store hold more than 50 completed or failed records.
C30_Original == Cardinality(TerminalIds) <= KeepLast

\* C30 as amended: at every instant the store holds at most 50 completed or
\* failed records besides the current job.  The job that has just finished
\* stays the current job, untrimmed, until its notification has been
\* awaited, so the store holds up to 51 terminal records during the
\* delivery and at most 50 once the finally block has run.
C30_HistoryBoundedBesidesCurrent ==
  Cardinality(TerminalIds \ {currentJob}) <= KeepLast

C30_Witness ==
  /\ pc = "fetch" /\ response = "pending"
  /\ Terminal(allJobs[currentJob])
  /\ Cardinality(TerminalIds) = KeepLast + 1
  /\ removed # {}

====
